---- MODULE Spec2Model ----
(***************************************************************************)
(* Model of src/app.py: a Streamlit page with an upload widget and two     *)
(* buttons.  "Analizar Tonos" runs the pitch pipeline (AudioAnalyzer:      *)
(* analyze_pitch per clip, then identify_outliers); "Procesar con          *)
(* Silencios" runs process_audio_files, which is wrapped in st.cache_data. *)
(*                                                                         *)
(* Abstractions.  The bytes of a clip are one of a few named contents; what *)
(* librosa and pydub make of them (decodable or not, duration, mean of the *)
(* confident pitch frames) is a function of the content.  A pydub segment  *)
(* is a sequence of pieces, each with the content it was decoded from and  *)
(* its length in milliseconds (pydub's unit of length).  The scratch file  *)
(* system is the set of temporary entries that exist.  The disk is in one  *)
(* of four conditions that decide which file operations raise.             *)
(***************************************************************************)
EXTENDS Integers, Sequences, FiniteSets, TLC

VARIABLES
    uploaded,         \* main: uploaded_files, the upload widget's ordered list
    disk,             \* condition of the temporary file system
    scratch,          \* temporary entries that exist on disk
    pc,               \* position of main: "idle", "analyzing", "identify"
    temp_dir,         \* AudioAnalyzer.temp_dir of the running analysis (0: none)
    idx,              \* main: position of `for file in uploaded_files`
    pitch_data,       \* main: pitch_data, the list of {'filename','pitch'}
    outliers,         \* main: outliers, as shown by the page
    cache,            \* st.cache_data store of process_audio_files
    processed_audio,  \* main: processed_audio of the last "Procesar" run
    download,         \* whether the page offers the download button
    report,           \* what the last handler did (observation only)
    runs              \* button clicks so far

vars == <<uploaded, disk, scratch, pc, temp_dir, idx, pitch_data, outliers,
          cache, processed_audio, download, report, runs>>

\* ------------------------------------------------------------------ bounds
MaxUpload == 2
MaxClips == 4
MaxRuns == 2
MaxTable == 4

\* --------------------------------------------------------------- constants
SilenceMs == 1500
MinRecords == 4

\* ------------------------------------------------------------------- data
None == [kind |-> "None"]

\* Contents of an uploaded buffer: "junk" is no wav file; "hum" decodes but no
\* frame has magnitude > 0.1; the others decode and have confident frames.
decodes(b) == b # "junk"

voiced(b) == b \notin {"junk", "hum"}

\* np.mean(pit) of a voiced content, in Hz.
mean_pitch(b) ==
    CASE b = "t10" -> 10
      [] b = "t11" -> 11
      [] b = "t12" -> 12
      [] b = "t1000" -> 1000
      [] OTHER -> 220

\* len(AudioSegment.from_wav(...)) in milliseconds.
duration(b) == IF b = "hum" THEN 2000 ELSE 700

File(n, b) == [name |-> n, bytes |-> b]

\* Upload universe of the page model: two files share a name.
Files == {File("a.wav", "tone"), File("b.wav", "hum"), File("a.wav", "junk")}

\* Upload universe of the pitch-table model.
PitchFiles == {File("a.wav", "hum"), File("b.wav", "junk"), File("a.wav", "t10"),
               File("c.wav", "t11"), File("d.wav", "t12"), File("b.wav", "t1000")}

Disks == {"ok", "low", "full", "ro"}

SeqsUpTo(S, n) == UNION {[1..k -> S] : k \in 0..n}

\* A name no existing scratch entry has (mkdtemp, NamedTemporaryFile).
Fresh(fs) == CHOOSE n \in 1..(Cardinality(fs) + 1) : \A e \in fs : e.id # n

\* ------------------------------------------------- AudioAnalyzer.analyze_pitch
\* os.path.join(self.temp_dir, file_name)
TempPath(dir, file_name) == [kind |-> "pitchfile", id |-> dir, name |-> file_name]

\* The try block: what it returns or that it raised, and the files it leaves.
\* open() raises when no file can be created; f.write() raises on a full disk;
\* librosa.load raises on bytes that are no wav file.
analyze_try(dir, file, dsk, fs) ==
    LET temp_path == TempPath(dir, file.name)
        written == fs \cup {temp_path}
    IN  IF dsk = "ro" THEN [exc |-> TRUE, val |-> 0, fs |-> fs]
        ELSE IF dsk = "full" THEN [exc |-> TRUE, val |-> 0, fs |-> written]
        ELSE IF ~decodes(file.bytes) THEN [exc |-> TRUE, val |-> 0, fs |-> written]
        ELSE IF ~voiced(file.bytes) THEN [exc |-> FALSE, val |-> 0, fs |-> written]
        ELSE [exc |-> FALSE, val |-> mean_pitch(file.bytes), fs |-> written]

\* Variant: no `except` clause, so what the try block raises leaves the call.
analyze_pitch_no_except(dir, file, dsk, fs) ==
    LET t == analyze_try(dir, file, dsk, fs)
        temp_path == TempPath(dir, file.name)
    IN  [ret    |-> IF t.exc THEN 0 ELSE t.val,
         error  |-> t.exc,
         raised |-> t.exc,
         fs     |-> IF temp_path \in t.fs THEN t.fs \ {temp_path} ELSE t.fs]

\* Variant: os.remove at the end of the try block instead of in `finally`.
analyze_pitch_no_finally(dir, file, dsk, fs) ==
    LET t == analyze_try(dir, file, dsk, fs)
        temp_path == TempPath(dir, file.name)
    IN  [ret    |-> IF t.exc THEN 0 ELSE t.val,
         error  |-> t.exc,
         raised |-> FALSE,
         fs     |-> IF t.exc THEN t.fs ELSE t.fs \ {temp_path}]

\* try / except Exception: st.error, return 0 / finally: remove temp_path if it
\* exists.  Nothing escapes the call: raised is FALSE.
analyze_pitch(dir, file, dsk, fs) ==
    LET t == analyze_try(dir, file, dsk, fs)
        temp_path == TempPath(dir, file.name)
    IN  [ret    |-> IF t.exc THEN 0 ELSE t.val,
         error  |-> t.exc,
         raised |-> FALSE,
         fs     |-> IF temp_path \in t.fs THEN t.fs \ {temp_path} ELSE t.fs]

\* --------------------------------------------- AudioAnalyzer.identify_outliers
Pitches(pd) == [i \in DOMAIN pd |-> pd[i].pitch]

Sorted(s) == SortSeq(s, LAMBDA a, b : a < b)

\* Series.quantile(num/4), linear interpolation, times 4: the value at the
\* fractional position (n-1)*num/4 of the sorted values.
Quantile4(s, num) ==
    LET srt == Sorted(s)
        n == Len(s)
        pos4 == num * (n - 1)
        lo == (pos4 \div 4) + 1
        hi == IF lo < n THEN lo + 1 ELSE n
        frac4 == pos4 % 4
    IN  4 * srt[lo] + frac4 * (srt[hi] - srt[lo])

\* lower_bound and upper_bound, times 8.
LowerBound8(s) == 2 * Quantile4(s, 1) - 3 * (Quantile4(s, 3) - Quantile4(s, 1))

UpperBound8(s) == 2 * Quantile4(s, 3) + 3 * (Quantile4(s, 3) - Quantile4(s, 1))

RECURSIVE FilterNames(_, _, _)
\* pitch_data[mask]['filename'].tolist(): the rows kept, in table order.
FilterNames(pd, lo8, hi8) ==
    IF pd = <<>> THEN <<>>
    ELSE LET r == Head(pd)
             rest == FilterNames(Tail(pd), lo8, hi8)
         IN  IF 8 * r.pitch < lo8 \/ 8 * r.pitch > hi8
             THEN <<r.filename>> \o rest
             ELSE rest

\* Variant: the early return hands back every filename instead of none.
identify_outliers_small_all(pd) ==
    IF Len(pd) < MinRecords THEN [i \in DOMAIN pd |-> pd[i].filename]
    ELSE FilterNames(pd, LowerBound8(Pitches(pd)), UpperBound8(Pitches(pd)))

RECURSIVE FilterNamesInclusive(_, _, _)
FilterNamesInclusive(pd, lo8, hi8) ==
    IF pd = <<>> THEN <<>>
    ELSE LET r == Head(pd)
             rest == FilterNamesInclusive(Tail(pd), lo8, hi8)
         IN  IF 8 * r.pitch <= lo8 \/ 8 * r.pitch >= hi8
             THEN <<r.filename>> \o rest
             ELSE rest

\* Variant: <= and >= in the mask.
identify_outliers_inclusive(pd) ==
    IF Len(pd) < MinRecords THEN <<>>
    ELSE FilterNamesInclusive(pd, LowerBound8(Pitches(pd)), UpperBound8(Pitches(pd)))

\* Variant: the quartiles are taken over the rows with pitch > 0 only.
identify_outliers_skip_zero(pd) ==
    LET nz == SelectSeq(Pitches(pd), LAMBDA v : v > 0)
    IN  IF Len(pd) < MinRecords \/ nz = <<>> THEN <<>>
        ELSE FilterNames(pd, LowerBound8(nz), UpperBound8(nz))

identify_outliers(pd) ==
    IF Len(pd) < MinRecords THEN <<>>
    ELSE FilterNames(pd, LowerBound8(Pitches(pd)), UpperBound8(Pitches(pd)))

\* -------------------------------------------------------- process_audio_files
Silence == [src |-> "silence", ms |-> SilenceMs]

Decoded(b) == [src |-> b, ms |-> duration(b)]

\* Lines 95-102: the export file is created, combined.export writes it (and
\* raises when the disk cannot hold the combined audio), it is read back and
\* removed.  An exception leaves the function through `except`: return None.
ExportStep(combined, dsk, fs) ==
    IF dsk = "ro" THEN [ret |-> None, error |-> TRUE, fs |-> fs]
    ELSE LET output == [kind |-> "export", id |-> Fresh(fs), name |-> ".wav"]
         IN  IF dsk \in {"full", "low"}
             THEN [ret |-> None, error |-> TRUE, fs |-> fs \cup {output}]
             ELSE [ret |-> [kind |-> "wav", audio |-> combined],
                   error |-> FALSE, fs |-> fs]

RECURSIVE ClipLoop_skip(_, _, _, _, _)
\* Variant: a clip that does not decode is skipped (per-clip fallback).
ClipLoop_skip(files, i, combined, dsk, fs) ==
    IF i > Len(files) THEN ExportStep(combined, dsk, fs)
    ELSE IF dsk = "ro" THEN [ret |-> None, error |-> TRUE, fs |-> fs]
    ELSE LET temp_file == [kind |-> "clipwav", id |-> Fresh(fs), name |-> ".wav"]
         IN  IF dsk = "full"
             THEN [ret |-> None, error |-> TRUE, fs |-> fs \cup {temp_file}]
             ELSE IF ~decodes(files[i].bytes)
             THEN ClipLoop_skip(files, i + 1, combined, dsk, fs)
             ELSE ClipLoop_skip(files, i + 1,
                                combined \o (<<Decoded(files[i].bytes)>> \o <<Silence>>),
                                dsk, fs)

RECURSIVE ClipLoop_prepend(_, _, _, _, _)
\* Variant: combined = audio + silence + combined.
ClipLoop_prepend(files, i, combined, dsk, fs) ==
    IF i > Len(files) THEN ExportStep(combined, dsk, fs)
    ELSE IF dsk = "ro" THEN [ret |-> None, error |-> TRUE, fs |-> fs]
    ELSE LET temp_file == [kind |-> "clipwav", id |-> Fresh(fs), name |-> ".wav"]
         IN  IF dsk = "full"
             THEN [ret |-> None, error |-> TRUE, fs |-> fs \cup {temp_file}]
             ELSE IF ~decodes(files[i].bytes)
             THEN [ret |-> None, error |-> TRUE, fs |-> fs]
             ELSE ClipLoop_prepend(files, i + 1,
                                   (<<Decoded(files[i].bytes)>> \o <<Silence>>) \o combined,
                                   dsk, fs)

RECURSIVE ClipLoop_between(_, _, _, _, _)
\* Variant: the silence is put between clips only, none after the last.
ClipLoop_between(files, i, combined, dsk, fs) ==
    IF i > Len(files) THEN ExportStep(combined, dsk, fs)
    ELSE IF dsk = "ro" THEN [ret |-> None, error |-> TRUE, fs |-> fs]
    ELSE LET temp_file == [kind |-> "clipwav", id |-> Fresh(fs), name |-> ".wav"]
         IN  IF dsk = "full"
             THEN [ret |-> None, error |-> TRUE, fs |-> fs \cup {temp_file}]
             ELSE IF ~decodes(files[i].bytes)
             THEN [ret |-> None, error |-> TRUE, fs |-> fs]
             ELSE ClipLoop_between(files, i + 1,
                                   IF combined = <<>>
                                   THEN <<Decoded(files[i].bytes)>>
                                   ELSE combined \o (<<Silence>> \o <<Decoded(files[i].bytes)>>),
                                   dsk, fs)

RECURSIVE ClipLoop(_, _, _, _, _)
\* Lines 79-92, from the i-th file on.  NamedTemporaryFile(delete=False)
\* raises when no file can be created; temp_file.write raises on a full disk,
\* before temp_path is bound and outside the inner try; from_wav raises on
\* bytes that are no wav file, inside the inner try whose finally removes
\* temp_path.
ClipLoop(files, i, combined, dsk, fs) ==
    IF i > Len(files) THEN ExportStep(combined, dsk, fs)
    ELSE IF dsk = "ro" THEN [ret |-> None, error |-> TRUE, fs |-> fs]
    ELSE LET temp_file == [kind |-> "clipwav", id |-> Fresh(fs), name |-> ".wav"]
         IN  IF dsk = "full"
             THEN [ret |-> None, error |-> TRUE, fs |-> fs \cup {temp_file}]
             ELSE IF ~decodes(files[i].bytes)
             THEN [ret |-> None, error |-> TRUE, fs |-> fs]
             ELSE ClipLoop(files, i + 1,
                           combined \o (<<Decoded(files[i].bytes)>> \o <<Silence>>),
                           dsk, fs)

process_audio_files(files, dsk, fs) == ClipLoop(files, 1, <<>>, dsk, fs)

\* ------------------------------------------------------------- st.cache_data
\* The key of a call: per file, in list order, its name, position and bytes.
CacheKey(files) == [i \in DOMAIN files |-> <<files[i].name, 0, files[i].bytes>>]

Cached(store, files) == \E e \in store : e.key = CacheKey(files)

Stored(store, files) == (CHOOSE e \in store : e.key = CacheKey(files)).value

\* A call through the decorator: a stored value is returned without running
\* the function; otherwise the function runs and what it returns is stored,
\* None included.
cached_process(files, dsk, fs, store) ==
    IF Cached(store, files)
    THEN [ret |-> Stored(store, files), fs |-> fs, store |-> store, ran |-> FALSE]
    ELSE LET r == process_audio_files(files, dsk, fs)
         IN  [ret |-> r.ret, fs |-> r.fs, ran |-> TRUE,
              store |-> store \cup {[key |-> CacheKey(files), value |-> r.ret]}]

\* ----------------------------------------------------------------- the page
Report(op, dsk, error, ran, aborted) ==
    [op |-> op, dsk |-> dsk, error |-> error, ran |-> ran, aborted |-> aborted]

NoReport == Report("none", "ok", FALSE, FALSE, FALSE)

\* Every interaction reruns the script: what the last run showed is gone.
ClearedOutputs ==
    /\ pitch_data' = <<>>
    /\ outliers' = <<>>
    /\ processed_audio' = None
    /\ download' = FALSE

TypeInit ==
    /\ scratch = {}
    /\ pc = "idle"
    /\ temp_dir = 0
    /\ idx = 0
    /\ pitch_data = <<>>
    /\ outliers = <<>>
    /\ cache = {}
    /\ processed_audio = None
    /\ download = FALSE
    /\ report = NoReport
    /\ runs = 0

\* The page as first served: nothing uploaded, nothing cached.
Init ==
    /\ uploaded = <<>>
    /\ disk \in Disks
    /\ TypeInit

\* st.file_uploader: the user replaces the list of uploaded files.
Upload ==
    /\ pc = "idle"
    /\ \E files \in SeqsUpTo(Files, MaxUpload) :
          /\ files # uploaded
          /\ uploaded' = files
    /\ ClearedOutputs
    /\ report' = NoReport
    /\ UNCHANGED <<disk, scratch, pc, temp_dir, idx, cache, runs>>

\* The temporary file system changes condition, at any time.
DiskChange ==
    /\ \E d \in Disks \ {disk} : disk' = d
    /\ UNCHANGED <<uploaded, scratch, pc, temp_dir, idx, pitch_data, outliers,
                   cache, processed_audio, download, report, runs>>

\* "Analizar Tonos": analyzer = AudioAnalyzer(); pitch_data = [].  mkdtemp
\* raises when no directory can be created, which ends the script run.
ClickAnalyze ==
    /\ pc = "idle"
    /\ uploaded # <<>>
    /\ runs < MaxRuns
    /\ runs' = runs + 1
    /\ ClearedOutputs
    /\ IF disk = "ro"
       THEN /\ report' = Report("mkdtemp", disk, TRUE, FALSE, TRUE)
            /\ UNCHANGED <<scratch, pc, temp_dir, idx>>
       ELSE /\ temp_dir' = Fresh(scratch)
            /\ scratch' = scratch \cup {[kind |-> "dir", id |-> Fresh(scratch), name |-> ""]}
            /\ pc' = "analyzing"
            /\ idx' = 1
            /\ report' = Report("analyze", disk, FALSE, FALSE, FALSE)
    /\ UNCHANGED <<uploaded, disk, cache>>

\* One turn of `for file in uploaded_files`: analyze_pitch, then append.  An
\* exception leaving analyze_pitch would end the script run.
AnalyzeClip ==
    /\ pc = "analyzing"
    /\ idx <= Len(uploaded)
    /\ LET file == uploaded[idx]
           r == analyze_pitch(temp_dir, file, disk, scratch)
       IN  /\ scratch' = r.fs
           /\ IF r.raised
              THEN /\ pc' = "idle"
                   /\ report' = Report("analyze_pitch", disk, TRUE, TRUE, TRUE)
                   /\ UNCHANGED <<pitch_data, idx>>
              ELSE /\ pitch_data' = Append(pitch_data,
                                           [filename |-> file.name, pitch |-> r.ret])
                   /\ idx' = idx + 1
                   /\ report' = Report("analyze_pitch", disk, r.error, TRUE, FALSE)
                   /\ pc' = pc
    /\ UNCHANGED <<uploaded, disk, temp_dir, outliers, cache, processed_audio,
                   download, runs>>

\* After the loop: df = pd.DataFrame(pitch_data); analyzer.identify_outliers(df).
Identify ==
    /\ pc = "analyzing"
    /\ idx > Len(uploaded)
    /\ outliers' = identify_outliers(pitch_data)
    /\ pc' = "idle"
    /\ report' = Report("identify", disk, FALSE, TRUE, FALSE)
    /\ UNCHANGED <<uploaded, disk, scratch, temp_dir, idx, pitch_data, cache,
                   processed_audio, download, runs>>

\* "Procesar con Silencios": processed_audio = process_audio_files(...); the
\* download button is offered `if processed_audio`.
ClickProcess ==
    /\ pc = "idle"
    /\ uploaded # <<>>
    /\ runs < MaxRuns
    /\ runs' = runs + 1
    /\ LET r == cached_process(uploaded, disk, scratch, cache)
       IN  /\ processed_audio' = r.ret
           /\ download' = (r.ret # None)
           /\ scratch' = r.fs
           /\ cache' = r.store
           /\ report' = Report("process", disk, r.ret = None, r.ran, FALSE)
    /\ pitch_data' = <<>>
    /\ outliers' = <<>>
    /\ UNCHANGED <<uploaded, disk, pc, temp_dir, idx>>

Next ==
    \/ Upload
    \/ DiskChange
    \/ ClickAnalyze
    \/ AnalyzeClip
    \/ Identify
    \/ ClickProcess

Spec == Init /\ [][Next]_vars

\* ------------------------------------------------- the pitch pipeline alone
\* Any list of up to MaxTable files is uploaded; the analysis is run on it.
InitPitch ==
    /\ uploaded \in SeqsUpTo(PitchFiles, MaxTable)
    /\ disk \in Disks
    /\ TypeInit

NextPitch ==
    \/ ClickAnalyze
    \/ AnalyzeClip
    \/ Identify

SpecPitch == InitPitch /\ [][NextPitch]_vars

\* ------------------------------------------------ the page with one batch
\* Any list of up to MaxClips files is uploaded and stays; both buttons are
\* used on it while the disk changes condition.
InitBatch ==
    /\ uploaded \in SeqsUpTo(Files, MaxClips)
    /\ disk \in Disks
    /\ TypeInit

NextBatch ==
    \/ DiskChange
    \/ ClickAnalyze
    \/ AnalyzeClip
    \/ Identify
    \/ ClickProcess

SpecBatch == InitBatch /\ [][NextBatch]_vars

\* ================================================================== claims
AllDecode(files) == \A k \in DOMAIN files : decodes(files[k].bytes)

RECURSIVE SumMs(_, _)
\* Length in milliseconds of the first n pieces of a buffer.
SumMs(a, n) == IF n = 0 THEN 0 ELSE SumMs(a, n - 1) + a[n].ms

RECURSIVE SumDurations(_, _)
\* D_1 + ... + D_n of an upload list.
SumDurations(files, n) ==
    IF n = 0 THEN 0 ELSE SumDurations(files, n - 1) + duration(files[n].bytes)

\* C1: when a clip of the list does not decode, or the function ran and a write
\* or the final encode failed, process_audio_files returns None, whatever the
\* position of the failing clip, and the page offers no download.
C1_FailureReturnsNone ==
    report.op = "process" =>
        ((~AllDecode(uploaded) \/ (report.ran /\ report.dsk # "ok"))
            => (processed_audio = None /\ ~download))

C1_Witness ==
    /\ report.op = "process"
    /\ report.ran
    /\ report.dsk = "ok"
    /\ Len(uploaded) >= 3
    /\ decodes(uploaded[1].bytes)
    /\ decodes(uploaded[2].bytes)
    /\ ~decodes(uploaded[3].bytes)
    /\ processed_audio = None
    /\ ~download

\* C2: no clip ends the analysis run: while the loop runs there is one record
\* per clip already visited, in upload order, a clip that fails to decode has
\* pitch 0, and identify_outliers is given one record per uploaded clip.
C2_OneRecordPerClip ==
    /\ ~(report.op = "analyze_pitch" /\ report.aborted)
    /\ pc = "analyzing" => Len(pitch_data) = idx - 1
    /\ report.op = "identify" => Len(pitch_data) = Len(uploaded)
    /\ \A k \in DOMAIN pitch_data :
          /\ k <= Len(uploaded)
          /\ pitch_data[k].filename = uploaded[k].name
          /\ ~decodes(uploaded[k].bytes) => pitch_data[k].pitch = 0

C2_Witness ==
    /\ pc = "analyzing"
    /\ idx > Len(uploaded)
    /\ Len(uploaded) >= 3
    /\ Len(pitch_data) = Len(uploaded)
    /\ ~decodes(uploaded[1].bytes)
    /\ pitch_data[1].pitch = 0
    /\ pitch_data[3].pitch > 0

\* C3: once a run has finished (the page is idle again), nothing it created
\* in scratch storage exists any more.
C3_NoScratchLeft == pc = "idle" => scratch = {}

\* C4: between calls of analyze_pitch no scratch file of a clip exists.
C4_PitchScratchRemoved == \A e \in scratch : e.kind # "pitchfile"

C4_Witness ==
    /\ pc = "analyzing"
    /\ report.op = "analyze_pitch"
    /\ idx >= 4
    /\ {uploaded[1].bytes, uploaded[2].bytes, uploaded[3].bytes} = {"tone", "hum", "junk"}
    /\ \A k \in 1..3 :
          /\ uploaded[k].bytes = "tone" => pitch_data[k].pitch > 0
          /\ TempPath(temp_dir, uploaded[k].name) \notin scratch

\* C5: a table of fewer than 4 records has no outliers, whatever its pitches.
C5_SmallTableEmpty ==
    (report.op = "identify" /\ Len(pitch_data) < 4) => outliers = <<>>

C5_Witness ==
    /\ report.op = "identify"
    /\ Len(pitch_data) = 3
    /\ {pitch_data[k].pitch : k \in 1..3} = {0, 10, 1000}
    /\ outliers = <<>>

\* The k-th smallest of the values of s, by counting.
KthSmallest(s, k) ==
    CHOOSE v \in {s[i] : i \in DOMAIN s} :
        /\ Cardinality({i \in DOMAIN s : s[i] < v}) < k
        /\ k <= Cardinality({i \in DOMAIN s : s[i] <= v})

\* Four times the num/4 quantile of s, interpolated linearly between the two
\* order statistics next to position (n-1)*num/4.
Quartile4(s, num) ==
    LET n == Len(s)
        below == ((num * (n - 1)) \div 4) + 1
        above == IF below = n THEN n ELSE below + 1
        part == (num * (n - 1)) % 4
    IN  (4 - part) * KthSmallest(s, below) + part * KthSmallest(s, above)

\* v < Q1 - 1.5*IQR or v > Q3 + 1.5*IQR, all over the values s.
OutsideFence(s, v) ==
    LET q1 == Quartile4(s, 1)
        q3 == Quartile4(s, 3)
    IN  \/ 8 * v < 2 * q1 - 3 * (q3 - q1)
        \/ 8 * v > 2 * q3 + 3 * (q3 - q1)

FlaggedRows(pd) == {i \in DOMAIN pd : OutsideFence(Pitches(pd), pd[i].pitch)}

\* The j-th element of a set of row numbers, in increasing order.
NthRow(I, j) == CHOOSE i \in I : Cardinality({m \in I : m < i}) = j - 1

C7_ClipSilenceOrder ==
    (report.op = "process" /\ AllDecode(uploaded)) =>
        /\ (report.ran /\ report.dsk = "ok") => processed_audio # None
        /\ IF processed_audio = None THEN TRUE
           ELSE LET a == processed_audio.audio
                IN  /\ Len(a) = 2 * Len(uploaded)
                    /\ \A k \in 1..Len(uploaded) :
                          /\ a[2 * k - 1].src = uploaded[k].bytes
                          /\ a[2 * k - 1].ms = duration(uploaded[k].bytes)
                          /\ a[2 * k].src = "silence"
                          /\ a[2 * k].ms = SilenceMs
                          /\ SumMs(a, 2 * k - 2)
                               = SumDurations(uploaded, k - 1) + (k - 1) * SilenceMs

C7_Witness ==
    /\ report.op = "process"
    /\ processed_audio # None
    /\ Len(uploaded) >= 3
    /\ uploaded[1].bytes = "hum"
    /\ uploaded[2].bytes = "tone"
    /\ uploaded[3].bytes = "hum"

\* C8: the combined audio of N clips that all decode lasts
\* D_1 + ... + D_N + N * 1500 ms.
C8_TotalDuration ==
    (report.op = "process" /\ processed_audio # None) =>
        SumMs(processed_audio.audio, Len(processed_audio.audio))
            = SumDurations(uploaded, Len(uploaded)) + Len(uploaded) * 1500

C8_Witness ==
    /\ report.op = "process"
    /\ processed_audio # None
    /\ Len(uploaded) = 3
    /\ SumMs(processed_audio.audio, Len(processed_audio.audio)) = 700 + 2000 + 700 + 4500

ZeroRows(pd) == {i \in DOMAIN pd : pd[i].pitch = 0}

\* C9: a clip without a confident frame, and a clip that fails, has pitch 0;
\* the zeros are among the values the quartiles are taken from, and the rows
\* with pitch 0 are returned exactly when 0 is strictly outside that fence.
C9_ZeroNotSpecial ==
    /\ \A k \in DOMAIN pitch_data :
          ~voiced(uploaded[k].bytes) => pitch_data[k].pitch = 0
    /\ (report.op = "identify" /\ Len(pitch_data) >= 4) =>
          LET s == Pitches(pitch_data)
              others == {i \in DOMAIN pitch_data :
                            pitch_data[i].pitch # 0 /\ OutsideFence(s, pitch_data[i].pitch)}
          IN  IF OutsideFence(s, 0)
              THEN /\ Len(outliers) = Cardinality(others) + Cardinality(ZeroRows(pitch_data))
                   /\ \A i \in ZeroRows(pitch_data) :
                         \E j \in DOMAIN outliers : outliers[j] = pitch_data[i].filename
              ELSE Len(outliers) = Cardinality(others)

C9_Witness ==
    /\ report.op = "identify"
    /\ report.dsk = "ok"
    /\ Len(pitch_data) = 4
    /\ uploaded[2].bytes = "hum"
    /\ pitch_data[2].pitch = 0
    /\ OutsideFence(Pitches(pitch_data), 0)
    /\ outliers = <<"a.wav">>

\* C10: what a "Procesar" run returns is what process_audio_files, run afresh
\* on the uploaded list under the disk condition of that run, returns.
C10_CacheEqualsFresh ==
    report.op = "process" =>
        processed_audio = process_audio_files(uploaded, report.dsk, scratch).ret

====
